---- MODULE Spec2Model ----
(***************************************************************************)
(* Request pipeline of website/camweb.go: noWwwHandler (bot filter and     *)
(* host canonicalisation) in front of the ServeMux routes registered in    *)
(* main, the handlers behind those routes, and a client that follows the   *)
(* redirects the server issues back to itself.                             *)
(*                                                                         *)
(* Strings are sequences of tokens.  A token is an atomic piece of text;   *)
(* the alphabet is chosen so that every substring the code looks for       *)
(* ("/code/", "?", "..", "gw/", "%3B", "Baidu", "inet ", ...) is a         *)
(* sequence of whole tokens.                                               *)
(***************************************************************************)
EXTENDS Integers, Sequences, FiniteSets, TLC

VARIABLES cfg, req, pc, resp, invoked, route, io, fs, chain, prev

vars == <<cfg, req, pc, resp, invoked, route, io, fs, chain, prev>>

(***************************************************************************)
(* Bounds                                                                  *)
(***************************************************************************)
\* number of path segments after the first one
MaxTail == 1
\* number of "%3B"-separated fields in a query, minus one
MaxEsc == 2
\* redirects a client follows in one chain before giving up
MaxHops == 6

(***************************************************************************)
(* package strings                                                         *)
(***************************************************************************)
HasPrefix(s, p) == Len(p) <= Len(s) /\ SubSeq(s, 1, Len(p)) = p

Contains(s, sub) ==
    \E i \in 1..(Len(s) - Len(sub) + 1) : SubSeq(s, i, i + Len(sub) - 1) = sub

\* strings.Index: position of the first occurrence of the token, 0 for -1
Index(s, tok) ==
    IF \E i \in 1..Len(s) : s[i] = tok
    THEN CHOOSE i \in 1..Len(s) : s[i] = tok /\ \A j \in 1..(i - 1) : s[j] # tok
    ELSE 0

\* strings.Replace(s, old, new, -1) for a one-token old
RECURSIVE ReplaceAll(_, _, _)
ReplaceAll(s, old, new) ==
    IF s = <<>> THEN <<>>
    ELSE (IF Head(s) = old THEN new ELSE <<Head(s)>>) \o ReplaceAll(Tail(s), old, new)

\* mutant: the host is compared as sent
ToLower_AsSent(h) == h

\* strings.ToLower on the host names of the model
ToLower(h) ==
    CASE h = "WWW.Camlistore.Org" -> "www.camlistore.org"
      [] OTHER -> h

(***************************************************************************)
(* Requests                                                                *)
(***************************************************************************)
CanonHost == "camlistore.org"
BuildbotHost == "buildbot.camlistore.org"
Hosts == {CanonHost, "www.camlistore.org", "WWW.Camlistore.Org", BuildbotHost}

\* a header or connection property no handler has examined yet: its value is
\* the client's, drawn when the code first reads it
Unread == <<"(unread)">>

\* User-Agent header values
Agents == { <<"Mozilla/5.0">>,
            <<"Mozilla/5.0 (compatible; ", "Baidu", "spider/2.0)">>,
            <<"Mozilla/5.0 (compatible; ", "Googlebot", "/2.1)">>,
            <<"Mozilla/5.0 (compatible; ", "bingbot", "/2.0)">>,
            <<"Ezooms", "/1.0">>,
            <<"googlebot">> }

\* whether the request arrived over TLS (req.TLS != nil)
TlsFlags == { <<"tls">>, <<"plain">> }

\* first path segment
FirstSegs == { <<"favicon.ico">>, <<"pkg">>, <<"r">>, <<"debugz">>, <<"test.cgi">>,
               <<"code">>, <<"issue">>, <<"gw">>, <<"foo">>, <<"index.html">>,
               <<"a", "..", "b">> }

\* later path segments
TailSegs == { <<"index.html">>, <<"7">>, <<"ip">>, <<"foo">>, <<"..", "x">> }

RECURSIVE TailsOf(_)
TailsOf(n) ==
    IF n = 0 THEN { <<>> }
    ELSE TailsOf(n - 1) \cup
         { t \o <<"/">> \o s : t \in { u \in TailsOf(n - 1) : Len(u) = 0 \/ u[Len(u)] # "/" },
                               s \in TailSegs }

\* request paths: clean (no empty, "." or ".." segment), as a client sends them
Paths ==
    { <<"/">> } \cup
    { <<"/">> \o f \o t \o e : f \in FirstSegs, t \in TailsOf(MaxTail), e \in { <<>>, <<"/">> } }

RECURSIVE EscFields(_)
EscFields(n) ==
    IF n = 0 THEN { <<"p=x">> }
    ELSE { q \o <<"%3B", "f=y">> : q \in EscFields(n - 1) }

\* raw queries: none, and p=x followed by 0..MaxEsc fields joined by %3B
Queries == { <<>> } \cup UNION { EscFields(n) : n \in 0..MaxEsc }

\* the requests a client opens a session with
Requests ==
    [host : Hosts, path : Paths, query : Queries, agent : {Unread}, tls : {Unread}]

\* url.URL.RequestURI of a server request: the path, then "?" and the raw query
RequestURI(r) ==
    r.path \o (IF r.query # <<>> THEN <<"?">> \o r.query ELSE <<>>)

\* url.URL.String of a server request (no scheme, no host)
URLString(r) == RequestURI(r)

(***************************************************************************)
(* http.ResponseWriter: the sequence of events a handler produced          *)
(***************************************************************************)
Hdr(code, loc) == [ev |-> "header", code |-> code, loc |-> loc, data |-> <<>>]
Body(data) == [ev |-> "body", code |-> 0, loc |-> <<>>, data |-> data]

HeaderWritten(w) == \E i \in 1..Len(w) : w[i].ev = "header"

\* ResponseWriter.WriteHeader: only the first call takes effect
WriteHeader(w, code, loc) ==
    IF HeaderWritten(w) THEN w ELSE Append(w, Hdr(code, loc))

\* ResponseWriter.Write: an implicit WriteHeader(200) precedes the first byte
Write(w, data) == Append(WriteHeader(w, 200, <<>>), Body(data))

\* http.Redirect: Location header, status, and a short HTML note
Redirect(w, url, code) == Write(WriteHeader(w, code, url), <<"<a href>">>)

\* http.Error
Error(w, msg, code) == Write(WriteHeader(w, code, <<>>), <<msg>>)

\* the status line of the response; 0 while nothing has been written
Status(w) == IF HeaderWritten(w) THEN w[1].code ELSE 0
Location(w) == IF HeaderWritten(w) THEN w[1].loc ELSE <<>>
IsRedirect(w) == Status(w) \in {301, 302}

\* the response of a backend outside this program (file server, CGI process,
\* reverse proxy): it always answers, with its own status and body
Upstream(w, name) == Write(w, <<"response of ", name>>)

(***************************************************************************)
(* Routes registered on http.DefaultServeMux by main, in registration      *)
(* order.  Handle on a pattern ending in "/" also makes the mux answer the  *)
(* pattern without its slash with a redirect, unless that path is          *)
(* registered itself.                                                      *)
(***************************************************************************)
Route(host, pat, h) == [host |-> host, pat |-> pat, h |-> h]

Configs == [https : BOOLEAN, gitweb : BOOLEAN, buildbot : BOOLEAN]

\* mutant: the fallback registered first
Routes_RootFirst(c) ==
    << Route("", <<"/">>, "mainHandler"),
       Route("", <<"/", "favicon.ico">>, "fileServer"),
       Route("", <<"/", "robots.txt">>, "fileServer"),
       Route("", <<"/", "static", "/">>, "fileServer"),
       Route("", <<"/", "talks", "/">>, "fileServer"),
       Route("", <<"/", "pkg", "/">>, "godocHandler"),
       Route("", <<"/", "cmd", "/">>, "godocHandler"),
       Route("", <<"/", "r", "/">>, "gerritHandler"),
       Route("", <<"/", "debugz", "/", "ip">>, "ipHandler"),
       Route("", <<"/", "test.cgi">>, "testCgi"),
       Route("", <<"/", "test.cgi", "/", "foo">>, "testCgi"),
       Route("", <<"/", "code">>, "codeRedirect") >>
    \o (IF c.gitweb THEN << Route("", <<"/", "code", "/">>, "fixUpGitwebUrls") >> ELSE <<>>)
    \o << Route("", <<"/", "issue", "/">>, "issueRedirect") >>
    \o (IF c.buildbot THEN << Route(BuildbotHost, <<"/">>, "buildbotHandler") >> ELSE <<>>)

Routes(c) ==
    << Route("", <<"/", "favicon.ico">>, "fileServer"),
       Route("", <<"/", "robots.txt">>, "fileServer"),
       Route("", <<"/", "static", "/">>, "fileServer"),
       Route("", <<"/", "talks", "/">>, "fileServer"),
       Route("", <<"/", "pkg", "/">>, "godocHandler"),
       Route("", <<"/", "cmd", "/">>, "godocHandler"),
       Route("", <<"/", "r", "/">>, "gerritHandler"),
       Route("", <<"/", "debugz", "/", "ip">>, "ipHandler"),
       Route("", <<"/", "test.cgi">>, "testCgi"),
       Route("", <<"/", "test.cgi", "/", "foo">>, "testCgi"),
       Route("", <<"/", "code">>, "codeRedirect") >>
    \o (IF c.gitweb THEN << Route("", <<"/", "code", "/">>, "fixUpGitwebUrls") >> ELSE <<>>)
    \o << Route("", <<"/", "issue", "/">>, "issueRedirect"),
          Route("", <<"/">>, "mainHandler") >>
    \o (IF c.buildbot THEN << Route(BuildbotHost, <<"/">>, "buildbotHandler") >> ELSE <<>>)

IsTree(pat) == pat[Len(pat)] = "/"

\* a route matches a path exactly, or as a subtree when its pattern ends in "/"
PatMatches(pat, path) ==
    IF IsTree(pat) THEN HasPrefix(path, pat) ELSE pat = path

\* ServeMux.match: the exact pattern if registered, else the longest subtree
\* pattern that is a prefix of the path; 0 when none matches
MuxMatch(rs, host, path) ==
    LET cand == { i \in 1..Len(rs) : rs[i].host = host /\ PatMatches(rs[i].pat, path) }
    IN IF cand = {} THEN 0
       ELSE CHOOSE i \in cand : \A j \in cand : Len(rs[j].pat) <= Len(rs[i].pat)

\* the path with a trailing slash is a registered subtree and the path itself
\* is not registered: the mux redirects to the subtree
SlashRedirect(rs, path) ==
    /\ \E i \in 1..Len(rs) : rs[i].host = "" /\ rs[i].pat = path \o <<"/">>
    /\ ~ \E i \in 1..Len(rs) : rs[i].host = "" /\ rs[i].pat = path

\* ServeMux.handler: host-specific patterns take precedence over general ones
MuxHandler(c, r) ==
    LET rs == Routes(c)
        hm == MuxMatch(rs, r.host, r.path)
        gm == MuxMatch(rs, "", r.path)
    IN IF hm # 0 THEN rs[hm].h
       ELSE IF SlashRedirect(rs, r.path) THEN "slashRedirect"
       ELSE rs[gm].h

(***************************************************************************)
(* The content tree under root/content, as far as the program has looked   *)
(* at it: fs maps each path it has examined to what is there.  The tree    *)
(* does not change while the server runs, so a path examined again gives   *)
(* the same answer, and an answer never contradicts the tree's shape.      *)
(***************************************************************************)
Kinds == {"absent", "dir", "file", "fileH1", "noread"}

IsFile(k) == k \in {"file", "fileH1", "noread"}

Under(p, q) == HasPrefix(p, q \o <<"/">>)

Consistent(f, p, k) ==
    /\ \A q \in DOMAIN f : (Under(p, q) /\ f[q] # "dir") => k = "absent"
    /\ \A q \in DOMAIN f : (Under(q, p) /\ f[q] # "absent") => k = "dir"

\* what os.Lstat and ioutil.ReadFile can find at p
Lookups(f, p) ==
    IF p \in DOMAIN f THEN {f[p]} ELSE { k \in Kinds : Consistent(f, p, k) }

Learn(f, p, k) == IF p \in DOMAIN f THEN f ELSE f @@ (p :> k)

\* filepath.Clean on a relative path without "." and ".." segments: empty
\* segments and the trailing slash go
RECURSIVE CleanFrom(_, _)
CleanFrom(s, i) ==
    IF i > Len(s) THEN <<>>
    ELSE IF s[i] # "/" THEN <<s[i]>> \o CleanFrom(s, i + 1)
    ELSE IF /\ i > 1
            /\ s[i - 1] # "/"
            /\ \E j \in (i + 1)..Len(s) : s[j] # "/"
         THEN <<"/">> \o CleanFrom(s, i + 1)
    ELSE CleanFrom(s, i + 1)

\* filepath.Join(*root, "content", relPath)
AbsPath(relPath) ==
    LET c == CleanFrom(relPath, 1)
    IN <<"<root>", "/", "content">> \o (IF c = <<>> THEN <<>> ELSE <<"/">> \o c)

\* the bytes ioutil.ReadFile returns for a readable file
FileData(p, k) ==
    IF k = "fileH1"
    THEN <<"<h1>", p[Len(p)], "</h1>", "bytes of ">> \o p
    ELSE <<"bytes of ">> \o p

LstatError(p) == <<"lstat ">> \o p \o <<": no such file or directory">>
ReadError(p) == <<"open ">> \o p \o <<": permission denied">>

StatOp(p) == [op |-> "lstat", path |-> p]
ReadOp(p) == [op |-> "read", path |-> p]

(***************************************************************************)
(* Template rendering                                                      *)
(***************************************************************************)
\* applyTemplate(errorHtml, "errorHtml", err)
applyTemplate(err) == <<"error.html[">> \o err \o <<"]">>

\* servePage: pageHtml.Execute(w, {title, subtitle, content})
servePage(w, title, subtitle, content) ==
    Write(w, <<"page.html[", "title=">> \o title \o <<"subtitle=">> \o subtitle
             \o <<"content=">> \o content \o <<"]">>)

\* mutant: the status is never set
serveError_NoStatus(w, relpath, err) ==
    servePage(w, <<"File ">> \o relpath, <<>>, applyTemplate(err))

serveError(w, relpath, err) ==
    servePage(WriteHeader(w, 404, <<>>), <<"File ">> \o relpath, <<>>, applyTemplate(err))

\* h1TitlePattern.FindSubmatch: the text of the first <h1>text</h1>
h1Title(data) ==
    LET hits == { i \in 1..(Len(data) - 2) :
                    /\ data[i] = "<h1>"
                    /\ data[i + 1] \notin {"<h1>", "</h1>"}
                    /\ data[i + 2] = "</h1>" }
    IN IF hits = {} THEN <<>>
       ELSE <<data[(CHOOSE i \in hits : \A j \in hits : i <= j) + 1]>>

\* mutant: the page is titled after the request path
serveFile_TitleFromPath(w, relPath, absPath, k) ==
    IF k = "noread" THEN serveError(w, absPath, ReadError(absPath))
    ELSE servePage(w, relPath, <<>>, FileData(absPath, k))

\* serveFile, given what ReadFile finds at absPath
serveFile(w, relPath, absPath, k) ==
    IF k = "noread" THEN serveError(w, absPath, ReadError(absPath))
    ELSE servePage(w, h1Title(FileData(absPath, k)), <<>>, FileData(absPath, k))

(***************************************************************************)
(* noWwwHandler                                                            *)
(***************************************************************************)
isBot(agent) ==
    \/ Contains(agent, <<"Baidu">>)
    \/ Contains(agent, <<"bingbot">>)
    \/ Contains(agent, <<"Ezooms">>)
    \/ Contains(agent, <<"Googlebot">>)

\* the first two operands of the bot condition; isBot is evaluated, and the
\* User-Agent header read, only when both hold
BotGuard(ru) == Contains(ru, <<"/", "code", "/">>) /\ Contains(ru, <<"?">>)

\* mutant: host canonicalisation before the bot check
noWwwVerdict_HostFirst(r, agent) ==
    IF ToLower(r.host) = "www.camlistore.org" THEN "redirect"
    ELSE IF BotGuard(RequestURI(r)) /\ isBot(agent) THEN "deny"
    ELSE "pass"

\* the filter's verdict on request r whose User-Agent, if read, is agent
noWwwVerdict(r, agent) ==
    IF BotGuard(RequestURI(r)) /\ isBot(agent) THEN "deny"
    ELSE IF ToLower(r.host) = "www.camlistore.org" THEN "redirect"
    ELSE "pass"

Finish(w, names) ==
    /\ resp' = w
    /\ invoked' = invoked \cup names
    /\ pc' = "done"

Call(names, next) ==
    /\ invoked' = invoked \cup names
    /\ pc' = next
    /\ resp' = resp

\* where the filter sends a request for the secondary host
wwwTarget(r) == <<"http://camlistore.org">> \o RequestURI(r)

noWwwHandler ==
    /\ pc = "filter"
    /\ \E agent \in (IF ~BotGuard(RequestURI(req)) \/ req.agent # Unread
                     THEN {req.agent} ELSE Agents) :
         /\ req' = [req EXCEPT !.agent = agent]
         /\ LET v == noWwwVerdict(req, agent)
            IN CASE v = "deny" -> Finish(Error(resp, "bye", 401), {"noWwwHandler"})
                 [] v = "redirect" ->
                      Finish(Redirect(resp, wwwTarget(req), 302),
                             {"noWwwHandler"})
                 [] OTHER -> Call({"noWwwHandler"}, "mux")
    /\ UNCHANGED <<cfg, route, io, fs, chain, prev>>

(***************************************************************************)
(* The dispatcher and the handlers behind it                               *)
(***************************************************************************)
ServeMux ==
    /\ pc = "mux"
    /\ Call({"mux"}, MuxHandler(cfg, req))
    /\ route' = MuxHandler(cfg, req)
    /\ UNCHANGED <<cfg, req, io, fs, chain, prev>>

\* the redirect the mux answers "/tree" with when "/tree/" is registered
slashRedirect ==
    /\ pc = "slashRedirect"
    /\ Finish(Redirect(resp, req.path \o <<"/">>, 301), {"slashRedirect"})
    /\ UNCHANGED <<cfg, req, route, io, fs, chain, prev>>

\* http.FileServer over root/static and root/talks
fileServer ==
    /\ pc = "fileServer"
    /\ Finish(Upstream(resp, "fileServer"), {"fileServer"})
    /\ UNCHANGED <<cfg, req, route, io, fs, chain, prev>>

godocHandler ==
    /\ pc = "godocHandler"
    /\ Finish(Upstream(resp, "godoc"), {"godocHandler"})
    /\ UNCHANGED <<cfg, req, route, io, fs, chain, prev>>

\* mutant: the gate installed whatever -https says
gerritVerdict_AlwaysGated(c, tls) ==
    IF tls # <<"tls">> THEN "redirect" ELSE "proxy"

\* mutant: the gate forgets to look at req.TLS
gerritVerdict_NoTlsCheck(c, tls) ==
    IF c.https THEN "redirect" ELSE "proxy"

\* the handler bound to /r/: the reverse proxy itself, or the TLS gate
\* around it when -https is set
gerritVerdict(c, tls) ==
    IF c.https /\ tls # <<"tls">> THEN "redirect" ELSE "proxy"

httpsTarget(r) == <<"https://camlistore.org">> \o RequestURI(r)

gerritHandler ==
    /\ pc = "gerritHandler"
    /\ \E tls \in (IF ~cfg.https \/ req.tls # Unread THEN {req.tls} ELSE TlsFlags) :
         /\ req' = [req EXCEPT !.tls = tls]
         /\ IF gerritVerdict(cfg, tls) = "proxy"
            THEN Call({"gerritHandler"}, "gerritProxy")
            ELSE Finish(Redirect(resp, httpsTarget(req), 302),
                        {"gerritHandler"})
    /\ UNCHANGED <<cfg, route, io, fs, chain, prev>>

gerritProxy ==
    /\ pc = "gerritProxy"
    /\ Finish(Upstream(resp, "gerrit"), {"gerritProxy"})
    /\ UNCHANGED <<cfg, req, route, io, fs, chain, prev>>

buildbotHandler ==
    /\ pc = "buildbotHandler"
    /\ Finish(Upstream(resp, "buildbot"), {"buildbotHandler"})
    /\ UNCHANGED <<cfg, req, route, io, fs, chain, prev>>

\* output of `ip -f inet addr show dev eth0`
IpOutputs == { <<>>,
               <<"2: eth0: ", "inet ", "10.0.0.5", "/", "24 brd 10.0.0.255">>,
               <<"2: eth0: ", "inet ", "10.0.0.5">> }

ipWrite(w, out) ==
    LET pos == Index(out, "inet ")
        str == SubSeq(out, pos + 1, Len(out))
        end == Index(str, "/")
    IN IF pos = 0 THEN w
       ELSE IF end = 0 THEN w
       ELSE Write(w, SubSeq(str, 1, end - 1))

ipHandler ==
    /\ pc = "ipHandler"
    /\ \E out \in IpOutputs : Finish(ipWrite(resp, out), {"ipHandler"})
    /\ UNCHANGED <<cfg, req, route, io, fs, chain, prev>>

testCgi ==
    /\ pc = "testCgi"
    /\ Finish(Upstream(resp, "test.cgi"), {"testCgi"})
    /\ UNCHANGED <<cfg, req, route, io, fs, chain, prev>>

\* http.RedirectHandler("/code/", http.StatusFound)
codeRedirect ==
    /\ pc = "codeRedirect"
    /\ Finish(Redirect(resp, <<"/", "code", "/">>, 302), {"codeRedirect"})
    /\ UNCHANGED <<cfg, req, route, io, fs, chain, prev>>

\* mutant: strings.Replace with n = 1
fixedUrl_FirstOnly(oldUrl) ==
    LET i == Index(oldUrl, "%3B")
    IN IF i = 0 THEN oldUrl
       ELSE SubSeq(oldUrl, 1, i - 1) \o <<";">> \o SubSeq(oldUrl, i + 1, Len(oldUrl))

\* newUrl of fixUpGitwebUrls.ServeHTTP
fixedUrl(oldUrl) == ReplaceAll(oldUrl, "%3B", <<";">>)

fixUpGitwebUrls ==
    /\ pc = "fixUpGitwebUrls"
    /\ IF fixedUrl(URLString(req)) = URLString(req)
       THEN Call({"fixUpGitwebUrls"}, "gitwebHandler")
       ELSE Finish(Redirect(resp, fixedUrl(URLString(req)), 302), {"fixUpGitwebUrls"})
    /\ UNCHANGED <<cfg, req, route, io, fs, chain, prev>>

gitwebTarget(path) ==
    IF path = <<"/", "code", "/">> \/ HasPrefix(path, <<"/", "code", "/", "?">>)
    THEN "gitwebCgi" ELSE "gitwebStatic"

gitwebHandler ==
    /\ pc = "gitwebHandler"
    /\ Call({"gitwebHandler"}, gitwebTarget(req.path))
    /\ UNCHANGED <<cfg, req, route, io, fs, chain, prev>>

gitwebCgi ==
    /\ pc = "gitwebCgi"
    /\ Finish(Upstream(resp, "gitweb.cgi"), {"gitwebCgi"})
    /\ UNCHANGED <<cfg, req, route, io, fs, chain, prev>>

gitwebStatic ==
    /\ pc = "gitwebStatic"
    /\ Finish(Upstream(resp, "gitweb static"), {"gitwebStatic"})
    /\ UNCHANGED <<cfg, req, route, io, fs, chain, prev>>

\* issueNum: ^/issue/(\d+)$
Digits == {"7"}

issueMatch(path) ==
    IF Len(path) = 4 /\ SubSeq(path, 1, 3) = <<"/", "issue", "/">> /\ path[4] \in Digits
    THEN <<path[4]>> ELSE <<>>

issueRedirect ==
    /\ pc = "issueRedirect"
    /\ IF issueMatch(req.path) = <<>>
       THEN Finish(Error(resp, "Bad request", 400), {"issueRedirect"})
       ELSE Finish(Redirect(resp, <<"https://code.google.com/p/camlistore/issues/detail?id=">>
                                   \o issueMatch(req.path), 302), {"issueRedirect"})
    /\ UNCHANGED <<cfg, req, route, io, fs, chain, prev>>

(***************************************************************************)
(* mainHandler, with serveFile and serveError                              *)
(***************************************************************************)
IndexOf(relPath) == relPath \o <<"/", "index.html">>

\* mutant: only a leading ".." is refused
mainRejects_LeadingOnly(relPath) == HasPrefix(relPath, <<"..">>)

\* whether mainHandler returns before it looks at the content tree
mainRejects(relPath) == Contains(relPath, <<"..">>)

mainIsGw(relPath) == HasPrefix(relPath, <<"gw", "/">>)

gwTarget(relPath) ==
    <<"http://camlistore.org", "/", "code", "/", "?", "p=camlistore.git", ";", "f=">>
    \o SubSeq(relPath, 3, Len(relPath)) \o <<";", "hb=master">>

\* the file mainHandler hands to serveFile for a directory
dirTarget(relPath) == IndexOf(relPath)

\* mainHandler on a request path, where k1 is what Lstat finds at the path
\* and k2 what it finds at the directory's index.html: the response and the
\* file-system operations performed
mainRun(w, path, k1, k2) ==
    LET relPath == Tail(path)
        abs1 == AbsPath(relPath)
        rel2 == dirTarget(relPath)
        abs2 == AbsPath(rel2)
    IN IF mainRejects(relPath) THEN [resp |-> w, io |-> <<>>]
       ELSE IF mainIsGw(relPath)
       THEN [resp |-> Redirect(w, gwTarget(relPath), 302), io |-> <<>>]
       ELSE IF k1 = "absent"
       THEN [resp |-> serveError(w, relPath, LstatError(abs1)), io |-> <<StatOp(abs1)>>]
       ELSE IF k1 = "dir"
       THEN (IF k2 = "absent"
             THEN [resp |-> serveError(w, rel2, LstatError(abs2)),
                   io |-> <<StatOp(abs1), StatOp(abs2)>>]
             ELSE IF k2 = "dir"
             THEN [resp |-> w, io |-> <<StatOp(abs1), StatOp(abs2)>>]
             ELSE [resp |-> serveFile(w, rel2, abs2, k2),
                   io |-> <<StatOp(abs1), StatOp(abs2), ReadOp(abs2)>>])
       ELSE [resp |-> serveFile(w, relPath, abs1, k1),
             io |-> <<StatOp(abs1), ReadOp(abs1)>>]

RECURSIVE LearnAll(_, _, _)
LearnAll(f, ops, ks) ==
    IF ops = <<>> THEN f
    ELSE LearnAll(Learn(f, Head(ops).path, ks[Head(ops).path]), Tail(ops), ks)

mainHandler ==
    /\ pc = "mainHandler"
    /\ LET abs1 == AbsPath(Tail(req.path))
           abs2 == AbsPath(dirTarget(Tail(req.path)))
       IN \E k1 \in Lookups(fs, abs1) :
          \E k2 \in (IF k1 = "dir" THEN Lookups(Learn(fs, abs1, k1), abs2) ELSE {"absent"}) :
             LET run == mainRun(resp, req.path, k1, k2)
             IN /\ Finish(run.resp, {"mainHandler"})
                /\ io' = io \o run.io
                /\ fs' = LearnAll(fs, run.io, (abs1 :> k1) @@ (abs2 :> k2))
    /\ UNCHANGED <<cfg, req, route, chain, prev>>

(***************************************************************************)
(* The client                                                              *)
(***************************************************************************)
\* the request a client makes for a Location header, <<>> when the location
\* is on another site
Follow(r, loc) ==
    LET abs == loc[1] \in {"http://camlistore.org", "https://camlistore.org"}
        rest == IF abs THEN Tail(loc) ELSE loc
        q == Index(rest, "?")
        path == IF q = 0 THEN rest ELSE SubSeq(rest, 1, q - 1)
        query == IF q = 0 THEN <<>> ELSE SubSeq(rest, q + 1, Len(rest))
    IN IF loc = <<>> \/ (~abs /\ loc[1] # "/") THEN <<>>
       ELSE << [host |-> IF abs THEN CanonHost ELSE r.host,
                path |-> path,
                query |-> query,
                agent |-> r.agent,
                tls |-> IF loc[1] = "https://camlistore.org" THEN <<"tls">>
                        ELSE IF abs THEN <<"plain">> ELSE r.tls] >>

Url(r) == [host |-> r.host, path |-> r.path, query |-> r.query, tls |-> r.tls]

\* the same resource over the same kind of connection
SameUrl(a, b) ==
    /\ ToLower(a.host) = ToLower(b.host) /\ a.path = b.path /\ a.query = b.query
    /\ (a.tls = b.tls \/ a.tls = Unread \/ b.tls = Unread)

RedirectsHere == pc = "done" /\ IsRedirect(resp) /\ Follow(req, Location(resp)) # <<>>

FollowRedirect ==
    /\ RedirectsHere
    /\ Len(chain) < MaxHops
    /\ req' = Follow(req, Location(resp))[1]
    /\ chain' = Append(chain, Url(req))
    /\ pc' = "filter"
    /\ resp' = <<>>
    /\ invoked' = {}
    /\ route' = ""
    /\ io' = <<>>
    /\ UNCHANGED <<cfg, fs, prev>>

NoPrev == [path |-> <<>>, resp |-> <<>>, io |-> <<>>]

\* after a page for a directory URL, the client asks for the directory's
\* index.html by name
FollowIndexLink ==
    /\ pc = "done"
    /\ prev = NoPrev
    /\ "mainHandler" \in invoked
    /\ req.path[Len(req.path)] = "/"
    /\ prev' = [path |-> req.path, resp |-> resp, io |-> io]
    /\ req' = [req EXCEPT !.path = req.path \o <<"index.html">>]
    /\ chain' = <<>>
    /\ pc' = "filter"
    /\ resp' = <<>>
    /\ invoked' = {}
    /\ route' = ""
    /\ io' = <<>>
    /\ UNCHANGED <<cfg, fs>>

(***************************************************************************)
(* Specification                                                           *)
(***************************************************************************)
Init ==
    /\ cfg \in Configs
    /\ req \in Requests
    /\ pc = "filter"
    /\ resp = <<>>
    /\ invoked = {}
    /\ route = ""
    /\ io = <<>>
    /\ fs = <<>>
    /\ chain = <<>>
    /\ prev = NoPrev

Next ==
    \/ noWwwHandler
    \/ ServeMux
    \/ slashRedirect
    \/ fileServer
    \/ godocHandler
    \/ gerritHandler
    \/ gerritProxy
    \/ buildbotHandler
    \/ ipHandler
    \/ testCgi
    \/ codeRedirect
    \/ fixUpGitwebUrls
    \/ gitwebHandler
    \/ gitwebCgi
    \/ gitwebStatic
    \/ issueRedirect
    \/ mainHandler
    \/ FollowRedirect
    \/ FollowIndexLink

Spec == Init /\ [][Next]_vars

(***************************************************************************)
(* Properties                                                              *)
(***************************************************************************)
BotWords == {"Baidu", "bingbot", "Ezooms", "Googlebot"}
AgentIsBot(a) == \E i \in 1..Len(a) : a[i] \in BotWords
UnderCode(path) == HasPrefix(path, <<"/", "code", "/">>)
UnderR(path) == HasPrefix(path, <<"/", "r", "/">>)
SecondaryHosts == {"www.camlistore.org", "WWW.Camlistore.Org"}
RawUrl(r) == r.path \o (IF r.query = <<>> THEN <<>> ELSE <<"?">> \o r.query)
Backends == {"gitwebHandler", "gitwebCgi", "gitwebStatic"}

\* C1: a request under /code/ with a non-empty query and a bot User-Agent
\* is answered 401 by the filter on every host, the secondary one included,
\* with no redirect and without the dispatcher or the CGI backend running.
C1_BotDenied ==
    (/\ pc # "filter"
     /\ UnderCode(req.path)
     /\ req.query # <<>>
     /\ AgentIsBot(req.agent))
    => (/\ pc = "done"
        /\ Status(resp) = 401
        /\ Location(resp) = <<>>
        /\ invoked = {"noWwwHandler"})

C1_Witness ==
    /\ pc = "done"
    /\ Status(resp) = 401
    /\ req.host \in SecondaryHosts
    /\ UnderCode(req.path)
    /\ req.query # <<>>
    /\ AgentIsBot(req.agent)

RedirectedToCanon ==
    /\ pc = "done"
    /\ Status(resp) = 302
    /\ Location(resp) = <<"http://camlistore.org">> \o RawUrl(req)
    /\ "mux" \notin invoked

\* C2 as stated: every request to the secondary hostname, whatever its path,
\* query and user agent, is redirected (302) to the same path and query on
\* camlistore.org and never reaches the dispatcher.
C2_Original ==
    (pc # "filter" /\ req.host \in SecondaryHosts) => RedirectedToCanon

BotRejected(r) ==
    /\ Contains(RawUrl(r), <<"/", "code", "/">>)
    /\ Contains(RawUrl(r), <<"?">>)
    /\ AgentIsBot(r.agent)

\* C2 amended: every request to the secondary hostname that the bot check
\* does not reject is redirected (302) to the same path and query on
\* camlistore.org and never reaches the dispatcher.
C2_Amended ==
    (pc # "filter" /\ req.host \in SecondaryHosts /\ ~BotRejected(req))
    => RedirectedToCanon

C2_Witness ==
    /\ RedirectedToCanon
    /\ req.host = "WWW.Camlistore.Org"
    /\ req.query # <<>>
    /\ UnderCode(req.path)
    /\ req.agent \in Agents

\* new is old with every %3B replaced by ";" and nothing else altered
SemicolonsFixed(old, new) ==
    /\ Len(new) = Len(old)
    /\ \A i \in 1..Len(old) : new[i] = (IF old[i] = "%3B" THEN ";" ELSE old[i])

FixerOutcome ==
    IF \E i \in 1..Len(RawUrl(req)) : RawUrl(req)[i] = "%3B"
    THEN /\ Status(resp) = 302
         /\ SemicolonsFixed(RawUrl(req), Location(resp))
         /\ invoked \cap Backends = {}
    ELSE /\ "gitwebHandler" \in invoked
         /\ ~IsRedirect(resp)

\* C3 as stated: every request under /code/ whose URL contains %3B gets a 302
\* to the URL with each %3B replaced by ";" and the wrapped handler does not
\* run; every request under /code/ without %3B reaches the wrapped handler.
C3_Original ==
    (pc = "done" /\ UnderCode(req.path)) => FixerOutcome

\* C3 amended: the same, for the requests under /code/ that the filter
\* passes and the dispatcher hands to the CGI URL fixer.
C3_Amended ==
    (pc = "done" /\ UnderCode(req.path) /\ route = "fixUpGitwebUrls") => FixerOutcome

C3_Witness ==
    /\ pc = "done"
    /\ route = "fixUpGitwebUrls"
    /\ Status(resp) = 302
    /\ Cardinality({ i \in 1..Len(req.query) : req.query[i] = "%3B" }) >= 2

InContentRoot(p) ==
    /\ HasPrefix(p, <<"<root>", "/", "content">>)
    /\ \A i \in 1..Len(p) : p[i] # ".."

\* C4: for a path containing "..", mainHandler performs no Lstat and no
\* read and renders nothing; every path it does examine lies under
\* root/content.
C4_NoTraversal ==
    /\ (pc = "done" /\ "mainHandler" \in invoked /\ Contains(Tail(req.path), <<"..">>))
       => (io = <<>> /\ resp = <<>>)
    /\ \A i \in 1..Len(io) : InContentRoot(io[i].path)

C4_Witness ==
    /\ pc = "done"
    /\ "mainHandler" \in invoked
    /\ Contains(Tail(req.path), <<"..">>)
    /\ req.path[Len(req.path)] = "x"

FailedOp(op) ==
    \/ op.op = "lstat" /\ fs[op.path] = "absent"
    \/ op.op = "read" /\ fs[op.path] = "noread"

ErrorPage(w, p) ==
    /\ Len(w) = 2
    /\ w[1] = Hdr(404, <<>>)
    /\ w[2].ev = "body"
    /\ w[2].data[1] = "page.html["
    /\ Contains(w[2].data, <<"content=", "error.html[">>)
    /\ (\/ Contains(w[2].data, p \o <<": no such file or directory", "]", "]">>)
        \/ Contains(w[2].data, p \o <<": permission denied", "]", "]">>))
    /\ \A i \in 1..Len(w[2].data) : w[2].data[i] # "bytes of "

\* C5: when the Lstat of the path fails, or the path is a directory and the
\* Lstat of its index.html fails, or the file cannot be read, the response
\* is one 404 header followed by the page template around the error
\* template's rendering of the error, and no file bytes.
C5_NotFound ==
    (pc = "done" /\ "mainHandler" \in invoked /\ io # <<>> /\ FailedOp(io[Len(io)]))
    => ErrorPage(resp, io[Len(io)].path)

C5_Witness ==
    /\ pc = "done"
    /\ "mainHandler" \in invoked
    /\ Len(io) = 3
    /\ FailedOp(io[3])
    /\ Status(resp) = 404

GerritOutcome ==
    /\ (cfg.https /\ req.tls = <<"plain">>)
       => /\ Status(resp) = 302
          /\ Location(resp) = <<"https://camlistore.org">> \o RawUrl(req)
          /\ "gerritProxy" \notin invoked
    /\ (cfg.https /\ req.tls = <<"tls">>) => "gerritProxy" \in invoked
    /\ ~cfg.https => "gerritProxy" \in invoked

\* C6 as stated: every request under /r/ is redirected to https when HTTPS
\* is enabled and it came in plaintext, proxied when HTTPS is enabled and it
\* came over TLS, and always proxied when HTTPS is disabled.
C6_Original ==
    (pc = "done" /\ UnderR(req.path)) => GerritOutcome

\* C6 amended: the same, for the requests under /r/ that the filter passes
\* and the dispatcher hands to the code-review route.
C6_Amended ==
    (pc = "done" /\ UnderR(req.path) /\ route = "gerritHandler")
    => (GerritOutcome /\ (cfg.https => req.tls \in TlsFlags))

C6_Witness ==
    /\ pc = "done"
    /\ UnderR(req.path)
    /\ cfg.https
    /\ req.tls = <<"plain">>
    /\ Status(resp) = 302
    /\ Location(resp)[1] = "https://camlistore.org"

\* C7: every request that has been handled got a response written by the
\* handler that took it.
C7_AlwaysResponds == pc = "done" => resp # <<>>

DirWithIndex(p) ==
    LET d == AbsPath(Tail(p))
        i == AbsPath(IndexOf(Tail(p)))
    IN /\ d \in DOMAIN fs /\ fs[d] = "dir"
       /\ i \in DOMAIN fs /\ IsFile(fs[i])

\* C8: when foo is a directory of the content tree holding a file
\* index.html, the requests /foo/ and /foo/index.html read the same file
\* and get the same response: status, title and body.
C8_DirIndexSame ==
    (/\ pc = "done"
     /\ prev # NoPrev
     /\ "mainHandler" \in invoked
     /\ DirWithIndex(prev.path))
    => (/\ resp = prev.resp
        /\ io # <<>> /\ prev.io # <<>>
        /\ io[Len(io)] = ReadOp(AbsPath(IndexOf(Tail(prev.path))))
        /\ prev.io[Len(prev.io)] = io[Len(io)])

C8_Witness ==
    /\ pc = "done"
    /\ prev # NoPrev
    /\ "mainHandler" \in invoked
    /\ DirWithIndex(prev.path)
    /\ fs[AbsPath(IndexOf(Tail(prev.path)))] = "fileH1"
    /\ req.path = prev.path \o <<"index.html">>
    /\ Status(resp) = 200
    /\ Contains(resp[2].data, <<"title=", "index.html", "subtitle=">>)

General(rs) == { i \in 1..Len(rs) : rs[i].host = "" }
Matching(rs, path) == { i \in General(rs) : PatMatches(rs[i].pat, path) }
Exact(rs, path) == { i \in Matching(rs, path) : ~IsTree(rs[i].pat) }
Specific(rs, path) == { i \in Matching(rs, path) : rs[i].pat # <<"/">> }
LongestOf(rs, path) ==
    CHOOSE i \in Matching(rs, path) : \A j \in Matching(rs, path) : Len(rs[j].pat) <= Len(rs[i].pat)
FirstOf(rs, idx) == CHOOSE i \in idx : \A j \in idx : i <= j

PathRouted(rs, path, h) ==
    /\ h = rs[LongestOf(rs, path)].h
    /\ Exact(rs, path) # {} => h = rs[FirstOf(rs, Exact(rs, path))].h
    /\ Exact(rs, path) = {} => h = rs[FirstOf(rs, Matching(rs, path))].h
    /\ Specific(rs, path) = {} => h = "mainHandler"

\* a registered subtree pattern without its trailing slash, not registered
\* itself: the mux treats it as a route to the subtree and redirects there
TreeWithoutSlash(rs, path) ==
    /\ \E i \in General(rs) : rs[i].pat = path \o <<"/">>
    /\ Exact(rs, path) = {}

\* C9 as stated: the dispatcher selects the adapter of the longest
\* registered pattern matching the path; among matching prefixes the first
\* registered wins, an exact route wins over a prefix route, and a path
\* matching no specific route goes to the fallback and nothing else.
\* (A subtree pattern without its slash is read as matching that route.)
C9_Original ==
    route # "" =>
        IF TreeWithoutSlash(Routes(cfg), req.path) THEN route = "slashRedirect"
        ELSE PathRouted(Routes(cfg), req.path, route)

OnBuildbotHost == cfg.buildbot /\ req.host = BuildbotHost

\* C9 amended: on a host without a host-specific route the dispatcher
\* selects as stated, except that a path equal to a registered subtree
\* pattern without its trailing slash, and not registered itself, is
\* answered by the mux's redirect to the subtree; every request to the
\* configured buildbot host goes to the buildbot proxy.
C9_Amended ==
    route # "" =>
        IF OnBuildbotHost THEN route = "buildbotHandler"
        ELSE IF TreeWithoutSlash(Routes(cfg), req.path) THEN route = "slashRedirect"
        ELSE PathRouted(Routes(cfg), req.path, route)

C9_Witness ==
    /\ route = "testCgi"
    /\ req.path = <<"/", "test.cgi", "/", "foo">>
    /\ ~OnBuildbotHost
    /\ pc = "done"

\* C10: a client following the redirects the server issues to itself never
\* requests a URL of its chain again, and is done after at most three hops.
C10_ChainsEnd ==
    /\ \A i \in 1..Len(chain) : ~SameUrl(chain[i], Url(req))
    /\ \A i, j \in 1..Len(chain) : i < j => ~SameUrl(chain[i], chain[j])
    /\ Len(chain) <= 3
    /\ RedirectsHere => Len(chain) < 3

C10_Witness ==
    /\ pc = "done"
    /\ Len(chain) = 3
    /\ cfg.https
    /\ "gerritProxy" \in invoked

====
